---- MODULE Spec2Model ----
(***************************************************************************)
(* Model of the annotation layer (three revisions of AnnotationLayer:      *)
(* src/display/annotation_layer.js, part_000 and part_001) and of the      *)
(* print-service polyfill (part_002) of the pdf.js viewer.                 *)
(*                                                                         *)
(* LayerSpec drives AnnotationLayer.render / AnnotationLayer.update on one *)
(* layer div; Spec drives the print service: window.print, the overlay's   *)
(* cancel button, the XHR / getDocument / renderPage completions, the      *)
(* print timer and direct calls of the PDFPrintService API; NetSpec calls  *)
(* the pure functions of display/network_utils on enumerated arguments.    *)
(***************************************************************************)
EXTENDS Integers, Sequences, FiniteSets, Bags, TLC

VARIABLES
  \* ---- annotation layer ----
  variant,        \* which revision of annotation_layer.js runs
  annotations,    \* the page's annotation data (parameters.annotations)
  div,            \* the layer div: [hidden, children]
  nUpdates,       \* number of update calls made so far
  lcall,          \* the last AnnotationLayer call and how it ended
  \* ---- print service ----
  activeService,  \* part_002:20, 0 stands for null
  created,        \* number of PDFPrintService objects constructed so far
  svc,            \* the PDFPrintService objects, by identity
  jobs,           \* bag of the renderPages() calls in progress
  printContainer, \* children of the print container (appended pages)
  bodyPrinting,   \* body has the data-pdfjsprinting attribute
  bodyStyles,     \* number of @page <style> elements attached to body
  overlayActive,  \* overlayManager.active === 'printServiceOverlay'
  overlayPromise, \* part_002:364, TRUE once ensureOverlay() registered
  appOverlayManager, \* PDFViewerApplication.overlayManager is set
  mq,             \* queue of promise reactions (microtasks)
  calls,          \* number of calls made so far that changed the state
  last,           \* the last step taken: what ran, for whom, how it ended
  \* ---- network utils ----
  netCall         \* the last network_utils call: [fn, args, result]

layerVars == <<variant, annotations, div, nUpdates, lcall>>
printVars == <<activeService, created, svc, jobs, printContainer, bodyPrinting,
               bodyStyles, overlayActive, overlayPromise, appOverlayManager,
               mq, calls, last>>
netVars == <<netCall>>
vars == <<variant, annotations, div, nUpdates, lcall,
          activeService, created, svc, jobs, printContainer, bodyPrinting,
          bodyStyles, overlayActive, overlayPromise, appOverlayManager,
          mq, calls, last, netCall>>

\* ---------------------------------------------------------------- bounds
MaxAnnots == 3
MaxUpdates == 2
MaxCalls == 2
NumPages == 2

\* ------------------------------------------------------- JS number values
\* A JS number is a finite rational (all values of the model are dyadic, so
\* the doubles are exact), NaN, Infinity or -Infinity.
RECURSIVE GCD(_, _)
GCD(a, b) == IF b = 0 THEN a ELSE GCD(b, a % b)

Abs(x) == IF x < 0 THEN -x ELSE x

Rat(n, d) ==
  LET g == GCD(Abs(n), Abs(d))
      s == IF d < 0 THEN -1 ELSE 1
  IN  [k |-> "num", n |-> (s * n) \div g, d |-> (s * d) \div g]

Num(i) == [k |-> "num", n |-> i, d |-> 1]
NaN == [k |-> "NaN", n |-> 0, d |-> 1]
Infinity == [k |-> "Infinity", n |-> 0, d |-> 1]
NegInfinity == [k |-> "-Infinity", n |-> 0, d |-> 1]

Sign(x) ==
  CASE x.k = "Infinity" -> 1
    [] x.k = "-Infinity" -> -1
    [] x.k = "NaN" -> 0
    [] OTHER -> IF x.n > 0 THEN 1 ELSE IF x.n < 0 THEN -1 ELSE 0

\* x * y
Mul(x, y) ==
  IF x.k = "NaN" \/ y.k = "NaN" THEN NaN
  ELSE IF x.k = "num" /\ y.k = "num" THEN Rat(x.n * y.n, x.d * y.d)
  ELSE IF Sign(x) * Sign(y) = 0 THEN NaN
  ELSE IF Sign(x) * Sign(y) > 0 THEN Infinity ELSE NegInfinity

\* x / y
Div(x, y) ==
  IF x.k = "NaN" \/ y.k = "NaN" THEN NaN
  ELSE IF x.k = "num" /\ y.k = "num"
    THEN IF y.n # 0 THEN Rat(x.n * y.d, x.d * y.n)
         ELSE IF x.n = 0 THEN NaN
         ELSE IF x.n > 0 THEN Infinity ELSE NegInfinity
  ELSE IF x.k # "num" /\ y.k # "num" THEN NaN
  ELSE IF x.k = "num" THEN Num(0)
  ELSE IF (Sign(x) > 0) = (Sign(y) >= 0) THEN Infinity ELSE NegInfinity

\* x + y
Add(x, y) ==
  IF x.k = "NaN" \/ y.k = "NaN" THEN NaN
  ELSE IF x.k = "num" /\ y.k = "num" THEN Rat(x.n * y.d + y.n * x.d, x.d * y.d)
  ELSE IF x.k = "num" THEN y
  ELSE IF y.k = "num" THEN x
  ELSE IF x.k = y.k THEN x ELSE NaN

\* ------------------------------------------------------------ DOM values
\* style.<prop> = x + 'px' and parseFloat(style.<prop>): the string is the
\* number with the unit appended; parseFloat reads the number back.
Px(x) == [value |-> x, unit |-> "px"]
ParseFloat(s) == s.value

\* CSSOM: assigning a length that does not parse ('NaNpx', 'Infinitypx')
\* leaves the property as it was.
SetLength(old, x) == IF x.k = "num" THEN Px(x) ELSE old

\* 'matrix(' + viewport.transform.join(',') + ')'
NoTransform == [fn |-> "none", args |-> <<>>]
MatrixOf(viewport) == [fn |-> "matrix", args |-> viewport.transform]

\* element.setAttribute('scale', x) / parseFloat(element.getAttribute('scale'))
NoAttr == [attr |-> "absent", value |-> NaN]
AttrOf(x) == [attr |-> "present", value |-> x]
ParseFloatAttr(a) == a.value

\* ------------------------------------------------------------ input data
Variants == {"annotation_layer.js", "part_000", "part_001"}

\* viewport.transform: identity, zoom 2, stretched (transform[0] # transform[3]),
\* rotated by 90 degrees (transform[0] = 0).
Viewports ==
  { [transform |-> <<1, 0, 0, 1, 0, 0>>],
    [transform |-> <<2, 0, 0, 2, 0, 0>>],
    [transform |-> <<1, 0, 0, 2, 0, 0>>],
    [transform |-> <<0, 1, -1, 0, 8, 0>>] }

\* page.view
PageView == <<0, 0, 8, 8>>

NoBorder == [width |-> 0, style |-> "SOLID"]

Annot(id, type, rect, hasPopup, title, contents, url, pId, pType, bStyle, bColor) ==
  [id |-> id, annotationType |-> type, rect |-> rect, hasPopup |-> hasPopup,
   title |-> title, contents |-> contents, url |-> url, dest |-> "",
   action |-> "", parentId |-> pId, parentType |-> pType,
   borderStyle |-> bStyle, borderColor |-> bColor]

\* A link annotation: to a url, to a destination of the document (dest) or
\* a named action.
Link(id, rect, url, dest, action) ==
  [Annot(id, "Link", rect, FALSE, "", "", url, 0, "", NoBorder, FALSE)
     EXCEPT !.dest = dest, !.action = action]

null == [id |-> 0, annotationType |-> "null", rect |-> <<0, 0, 0, 0>>,
         hasPopup |-> FALSE, title |-> "", contents |-> "", url |-> "",
         dest |-> "", action |-> "",
         parentId |-> 0, parentType |-> "", borderStyle |-> NoBorder,
         borderColor |-> FALSE]

\* The annotations a page can hand out; ids are unique on a page.
AnnotationPool ==
  { Annot(1, "Link", <<1, 2, 5, 6>>, FALSE, "", "", "http://u/", 0, "",
          [width |-> 1, style |-> "SOLID"], TRUE),
    Annot(2, "Text", <<2, 1, 4, 4>>, FALSE, "", "", "", 0, "",
          NoBorder, FALSE),
    Annot(3, "Popup", <<6, 6, 8, 8>>, FALSE, "title", "", "", 1, "Link",
          NoBorder, FALSE),
    Annot(4, "Link", <<0, 0, 2, 2>>, FALSE, "", "", "", 0, "",
          NoBorder, FALSE),
    Annot(5, "Line", <<3, 3, 7, 5>>, TRUE, "", "", "", 0, "",
          NoBorder, FALSE),
    Link(6, <<1, 1, 5, 5>>, "", "chapter1", ""),
    Link(7, <<4, 0, 6, 2>>, "", "", "NextPage"),
    Annot(8, "Popup", <<5, 1, 7, 3>>, FALSE, "", "note", "", 2, "Text",
          NoBorder, FALSE) }

RECURSIVE SeqsUpTo(_, _)
SeqsUpTo(S, n) ==
  IF n = 0 THEN {<<>>}
  ELSE LET shorter == SeqsUpTo(S, n - 1)
       IN  shorter \cup {Append(s, x) : s \in shorter, x \in S}

UniqueIds(arr) ==
  \A i, j \in 1..Len(arr) :
    (i # j /\ arr[i] # null /\ arr[j] # null) => arr[i].id # arr[j].id

\* The arrays a caller passes as parameters.annotations: page annotations
\* with unique ids, possibly with null entries.
AnnotationArrays ==
  {arr \in SeqsUpTo(AnnotationPool \cup {null}, MaxAnnots) : UniqueIds(arr)}

\* ------------------------------------------------- annotation elements
\* Util.normalizeRect (shared/util.js): orders the corners of a rectangle.
NormalizeRect(r) ==
  LET a == IF r[1] > r[3] THEN <<r[3], r[2], r[1], r[4]>> ELSE r
  IN  IF a[2] > a[4] THEN <<a[1], a[4], a[3], a[2]>> ELSE a

Truthy(str) == str # ""

\* The element classes whose isRenderable is hasPopup || title || contents.
\* annotation_layer.js has no class for the types it does not list: they get
\* the base AnnotationElement, which is not renderable.
MarkupTypes(v) ==
  IF v = "annotation_layer.js"
  THEN {"Text", "Line", "Highlight", "Underline", "Squiggly", "StrikeOut"}
  ELSE {"Text", "FreeText", "Line", "Square", "Circle", "PolyLine", "Polygon",
        "Caret", "Ink", "Highlight", "Underline", "Squiggly", "StrikeOut", "Stamp"}

\* The isRenderable argument each element class passes to the constructor
\* (the form widget classes are left out: no widget is in the pool).
IsRenderable(v, data) ==
  CASE data.annotationType = "Link" ->
         IF v = "annotation_layer.js" THEN TRUE
         ELSE Truthy(data.url) \/ Truthy(data.dest) \/ Truthy(data.action)
    [] data.annotationType \in MarkupTypes(v) ->
         data.hasPopup \/ Truthy(data.title) \/ Truthy(data.contents)
    [] data.annotationType = "Popup" ->
         Truthy(data.title) \/ Truthy(data.contents)
    [] data.annotationType = "FileAttachment" -> TRUE
    [] OTHER -> FALSE

\* The ignoreBorder argument each element class passes to the constructor.
IgnoreBorder(v, data) == data.annotationType \in MarkupTypes(v) \ {"Text"}

\* IGNORE_TYPES of PopupAnnotationElement.render
IGNORE_TYPES(v) ==
  IF v = "annotation_layer.js" THEN {"Line"}
  ELSE {"Line", "Square", "Circle", "PolyLine", "Polygon", "Ink"}

\* AnnotationElement._createContainer: the section element of an annotation.
CreateContainer(v, data, viewport) ==
  LET r == data.rect
      rect == NormalizeRect(<<r[1], PageView[4] - r[2] + PageView[2],
                              r[3], PageView[4] - r[4] + PageView[2]>>)
      shrink == /\ ~IgnoreBorder(v, data)
                /\ data.borderStyle.width > 0
                /\ data.borderColor
                /\ data.borderStyle.style # "UNDERLINE"
      width == (r[3] - r[1]) - (IF shrink THEN 2 * data.borderStyle.width ELSE 0)
      height == (r[4] - r[2]) - (IF shrink THEN 2 * data.borderStyle.width ELSE 0)
      scaleX == viewport.transform[1]
      scaleY == viewport.transform[4]
  IN  IF v = "part_000"
      THEN [id |-> data.id, className |-> "",
            transform |-> NoTransform,
            left |-> Px(Num(rect[1] * scaleX)), top |-> Px(Num(rect[2] * scaleY)),
            width |-> Px(Num(width * scaleX)), height |-> Px(Num(height * scaleY)),
            scale |-> AttrOf(Num(scaleX)), popup |-> FALSE]
      ELSE [id |-> data.id, className |-> "",
            transform |-> MatrixOf(viewport),
            left |-> Px(Num(rect[1])), top |-> Px(Num(rect[2])),
            width |-> Px(Num(width)), height |-> Px(Num(height)),
            scale |-> NoAttr, popup |-> FALSE]

\* layer.querySelector('[data-annotation-id="<id>"]'): the index of the first
\* section with that id, 0 when there is none.
QuerySelector(children, id) ==
  IF \E i \in 1..Len(children) : children[i].id = id
  THEN CHOOSE i \in 1..Len(children) :
         /\ children[i].id = id
         /\ \A j \in 1..(i - 1) : children[j].id # id
  ELSE 0

\* PopupAnnotationElement.render: the popup is attached and positioned next
\* to the parent only when the parent's section is already in the layer.
PopupRender(v, data, container, children) ==
  LET c == [container EXCEPT !.className = "popupAnnotation"]
      p == QuerySelector(children, data.parentId)
  IN  IF data.parentType \in IGNORE_TYPES(v) THEN c
      ELSE IF p = 0 THEN c
      ELSE [c EXCEPT
              !.left = Px(Add(ParseFloat(children[p].left),
                              ParseFloat(children[p].width))),
              !.popup = TRUE]

\* <Type>AnnotationElement.render: the section as it is handed to appendChild.
ElementRender(v, data, viewport, children) ==
  LET container == CreateContainer(v, data, viewport)
  IN  IF data.annotationType = "Popup"
      THEN PopupRender(v, data, container, children)
      ELSE [container EXCEPT !.className = data.annotationType]

\* The loop of AnnotationLayer.render over the annotations it visits, in order.
RECURSIVE RenderLoop(_, _, _, _, _)
RenderLoop(v, children, list, i, viewport) ==
  IF i > Len(list) THEN children
  ELSE IF list[i] = null
    THEN RenderLoop(v, children, list, i + 1, viewport)
  ELSE IF IsRenderable(v, list[i])
    THEN RenderLoop(v, Append(children,
                              ElementRender(v, list[i], viewport, children)),
                    list, i + 1, viewport)
  ELSE RenderLoop(v, children, list, i + 1, viewport)

\* part_001: sortedAnnotations, the non-Popup annotations and then the Popup
\* annotations, each group in input order, null entries dropped.
RECURSIVE Filter(_, _, _)
Filter(list, i, popups) ==
  IF i > Len(list) THEN <<>>
  ELSE IF list[i] # null /\ ((list[i].annotationType = "Popup") = popups)
    THEN <<list[i]>> \o Filter(list, i + 1, popups)
  ELSE Filter(list, i + 1, popups)

SortedAnnotations(list) == Filter(list, 1, FALSE) \o Filter(list, 1, TRUE)

\* Mutants of RenderOrder: Popup annotations moved last in every revision;
\* the input order kept in every revision.
RenderOrderPopupsLast(v, list) == SortedAnnotations(list)
RenderOrderAsGiven(v, list) == list

\* The annotations AnnotationLayer.render visits, in the order it visits them.
RenderOrder(v, list) == IF v = "part_001" THEN SortedAnnotations(list) ELSE list

\* Mutant of UpdateElement: the transform is written only when the element
\* has none yet.
UpdateElementOnce(v, e, viewport) ==
  IF e.transform = NoTransform THEN [e EXCEPT !.transform = MatrixOf(viewport)] ELSE e

\* The body of the loop of AnnotationLayer.update for a found element (the
\* section itself; part_000 also rescales the styles of its descendants).
UpdateElement(v, e, viewport) ==
  IF v = "part_000"
  THEN LET scale == ParseFloatAttr(e.scale)
           scaleX == Num(viewport.transform[1])
           scaleY == Num(viewport.transform[4])
       IN  [e EXCEPT
             !.left = SetLength(e.left, Mul(Div(ParseFloat(e.left), scale), scaleX)),
             !.top = SetLength(e.top, Mul(Div(ParseFloat(e.top), scale), scaleY)),
             !.width = SetLength(e.width, Mul(Div(ParseFloat(e.width), scale), scaleX)),
             !.height = SetLength(e.height, Mul(Div(ParseFloat(e.height), scale), scaleY)),
             !.scale = AttrOf(scaleX)]
  ELSE [e EXCEPT !.transform = MatrixOf(viewport)]

\* The loop of AnnotationLayer.update. Reading data.id of a null entry throws
\* a TypeError, which ends the call before the rest of the loop.
RECURSIVE UpdateLoop(_, _, _, _, _)
UpdateLoop(v, children, list, i, viewport) ==
  IF i > Len(list) THEN [children |-> children, threw |-> FALSE]
  ELSE IF list[i] = null THEN [children |-> children, threw |-> TRUE]
  ELSE LET p == QuerySelector(children, list[i].id)
       IN  IF p = 0 THEN UpdateLoop(v, children, list, i + 1, viewport)
           ELSE UpdateLoop(v,
                           [children EXCEPT ![p] = UpdateElement(v, children[p], viewport)],
                           list, i + 1, viewport)

\* AnnotationLayer.render(parameters) on a fresh layer div.
RenderDiv(v, viewport) ==
  /\ variant = v
  /\ div.children = <<>>
  /\ div' = [div EXCEPT
               !.children = RenderLoop(v, <<>>, RenderOrder(v, annotations), 1, viewport)]
  /\ lcall' = [op |-> "render", viewport |-> viewport, threw |-> FALSE]
  /\ UNCHANGED <<variant, annotations, nUpdates>>
  /\ UNCHANGED printVars
  /\ UNCHANGED netVars

\* AnnotationLayer.update(parameters): removeAttribute('hidden') is reached
\* only when the loop did not throw.
UpdateDiv(v, viewport) ==
  /\ variant = v
  /\ nUpdates < MaxUpdates
  /\ LET r == UpdateLoop(v, div.children, annotations, 1, viewport)
     IN  /\ div' = [hidden |-> IF r.threw THEN div.hidden ELSE FALSE,
                    children |-> r.children]
         /\ lcall' = [op |-> "update", viewport |-> viewport, threw |-> r.threw]
  /\ nUpdates' = nUpdates + 1
  /\ UNCHANGED <<variant, annotations>>
  /\ UNCHANGED printVars
  /\ UNCHANGED netVars

Render == \E viewport \in Viewports : RenderDiv("annotation_layer.js", viewport)
Render000 == \E viewport \in Viewports : RenderDiv("part_000", viewport)
Render001 == \E viewport \in Viewports : RenderDiv("part_001", viewport)
Update == \E viewport \in Viewports : UpdateDiv("annotation_layer.js", viewport)
Update000 == \E viewport \in Viewports : UpdateDiv("part_000", viewport)
Update001 == \E viewport \in Viewports : UpdateDiv("part_001", viewport)

IdentityViewport == [transform |-> <<1, 0, 0, 1, 0, 0>>]

\* ------------------------------------------------------- print service
ActiveMsg == "The print service is created and active."
InactiveMsg == "This print request was cancelled or completed."
IgnoredMsg == "Ignored window.print() because of a pending print job."
ExpectedMsg == "Expected print service to be initialized."
OverlayMsg == "The overlay manager has not yet been initialized."
SizeMsg == "Not all pages have the same size. The printed result may be incorrect!"

\* pagesOverview: the sizes of the pages of a document of NumPages pages,
\* all equal or the last one longer.
PageSize(width, height) == [width |-> width, height |-> height]
Portrait == PageSize(100, 200)
Long == PageSize(100, 300)
PagesOverviews ==
  {[i \in 1..NumPages |-> Portrait],
   [i \in 1..NumPages |-> IF i = NumPages THEN Long ELSE Portrait]}

\* The print state a handler starts from, with what it throws, logs and
\* dispatches still empty.
PS ==
  [activeService |-> activeService, created |-> created, svc |-> svc,
   jobs |-> jobs, printContainer |-> printContainer,
   bodyPrinting |-> bodyPrinting, bodyStyles |-> bodyStyles,
   overlayActive |-> overlayActive, overlayPromise |-> overlayPromise,
   appOverlayManager |-> appOverlayManager, mq |-> mq,
   err |-> "", console |-> <<>>, events |-> <<>>, promise |-> ""]

\* promise.then(callback) on a promise that is settled or settles in this
\* task: the reaction is queued as a microtask. s is the service whose
\* window.print chain the reaction belongs to (0: a reaction of
\* overlayPromise).
Enqueue(st, kind, s) == [st EXCEPT !.mq = Append(@, [kind |-> kind, svc |-> s])]

\* A call of renderPages() on service s: where it stands (st), the page
\* being rendered (index) and whether window.print chained its reactions
\* to the promise. A call is dropped from the bag when nothing can follow
\* from it any more.
Job(s, state, index, chained) ==
  [svc |-> s, st |-> state, index |-> index, chained |-> chained]

AddJob(st, j) == [st EXCEPT !.jobs = @ (+) SetToBag({j})]
DropJob(st, j) == [st EXCEPT !.jobs = @ (-) SetToBag({j})]
SetJob(st, j, state) == AddJob(DropJob(st, j), [j EXCEPT !.st = state])

\* The promise renderPages returned is never settled: the reactions
\* window.print chained to it never run.
Lose(st, j) == IF j.chained THEN SetJob(st, j, "lost") ELSE DropJob(st, j)

\* resolve() or reject(...) of the promise renderPages returned: the first
\* reaction of window.print's chain is queued when there is one.
Settle(st, j, outcome) ==
  LET st1 == [st EXCEPT !.promise = outcome]
  IN  IF j.chained
      THEN Enqueue(SetJob(st1, j, outcome), IF outcome = "resolved" THEN "then" ELSE "catch", j.svc)
      ELSE DropJob(st1, j)

\* throw new Error(message)
Throw(st, message) == [st EXCEPT !.err = message]

\* console.warn(message), console.error(message)
Console(st, message) == [st EXCEPT !.console = Append(@, message)]

\* ensureOverlay(): registers the overlay once and returns overlayPromise.
ensureOverlay(st) ==
  IF st.overlayPromise THEN st
  ELSE IF ~st.appOverlayManager THEN Throw(st, OverlayMsg)
  ELSE [st EXCEPT !.overlayPromise = TRUE]

\* dispatchEvent(eventType)
dispatchEvent(st, eventType) == [st EXCEPT !.events = Append(@, eventType)]

\* get active()
active(st, s) == s = st.activeService

\* new PDFPrintService(pdfDocument, pagesOverview, printContainer, l10n)
PDFPrintService(pagesOverview) ==
  [pagesOverview |-> pagesOverview, currentPage |-> -1, pageStyleSheet |-> FALSE]

\* Mutant of createPrintService: the check of activeService is missing.
createPrintServiceUnchecked(st, pagesOverview) ==
  [st EXCEPT !.created = @ + 1,
             !.svc = Append(@, PDFPrintService(pagesOverview)),
             !.activeService = st.created + 1]

\* PDFPrintServiceFactory.instance.createPrintService
createPrintService(st, pagesOverview) ==
  IF st.activeService # 0 THEN Throw(st, ActiveMsg)
  ELSE [st EXCEPT !.created = @ + 1,
                  !.svc = Append(@, PDFPrintService(pagesOverview)),
                  !.activeService = st.created + 1]

\* pagesOverview.every(size => size equals pagesOverview[0])
hasEqualPageSizes(pagesOverview) ==
  \A i \in 1..Len(pagesOverview) :
    /\ pagesOverview[i].width = pagesOverview[1].width
    /\ pagesOverview[i].height = pagesOverview[1].height

\* PDFPrintService.layout
layout(st, s) ==
  IF ~active(st, s) THEN Throw(st, InactiveMsg)
  ELSE LET st1 == [st EXCEPT !.bodyPrinting = TRUE]
           st2 == IF hasEqualPageSizes(st.svc[s].pagesOverview) THEN st1
                  ELSE Console(st1, SizeMsg)
       IN  [st2 EXCEPT !.svc[s].pageStyleSheet = TRUE, !.bodyStyles = @ + 1]

\* Mutant of PDFPrintService.destroy: the test for a stale reference is
\* missing.
destroyUnchecked(st, s) ==
  LET cleared ==
        [st EXCEPT !.printContainer = <<>>,
                   !.bodyPrinting = FALSE,
                   !.bodyStyles = IF st.svc[s].pageStyleSheet THEN @ - 1 ELSE @,
                   !.svc[s].pageStyleSheet = FALSE,
                   !.activeService = 0]
      ensured == ensureOverlay(cleared)
  IN  IF ensured.err # "" THEN ensured ELSE Enqueue(ensured, "overlayClose", 0)

\* PDFPrintService.destroy: ensureOverlay() is called, and may throw, after
\* the state is cleared.
destroy(st, s) ==
  IF st.activeService # s THEN st
  ELSE LET cleared ==
             [st EXCEPT !.printContainer = <<>>,
                        !.bodyPrinting = FALSE,
                        !.bodyStyles = IF st.svc[s].pageStyleSheet THEN @ - 1 ELSE @,
                        !.svc[s].pageStyleSheet = FALSE,
                        !.activeService = 0]
           ensured == ensureOverlay(cleared)
       IN  IF ensured.err # "" THEN ensured ELSE Enqueue(ensured, "overlayClose", 0)

\* abort(): 'afterprint' is dispatched when destroy() returned.
abort(st) ==
  IF st.activeService # 0
  THEN LET destroyed == destroy(st, st.activeService)
       IN  IF destroyed.err # "" THEN destroyed
           ELSE dispatchEvent(destroyed, "afterprint")
  ELSE st

\* The synchronous part of PDFPrintService.renderPages: a request is sent
\* and a new promise returned, with no reaction attached yet (the progress
\* bar renderProgress drives is not part of the state).
renderPages(st, s) == AddJob(st, Job(s, "xhr", -1, FALSE))

\* reject(...) of the promise renderPages returned.
Reject(st, j) == Settle(st, j, "rejected")

\* renderNextPage of the call j of renderPages() on its service. An exception
\* thrown here is thrown inside a then-callback: it rejects a promise nobody
\* observes, and the promise renderPages returned is never settled.
renderNextPage(st, j) ==
  LET s == j.svc
  IN  IF ~active(st, s) THEN Lose(Throw(st, InactiveMsg), j)
      ELSE LET next == st.svc[s].currentPage + 1
               st1 == [st EXCEPT !.svc[s].currentPage = next]
           IN  IF next >= Len(st.svc[s].pagesOverview)
               THEN Settle(st1, j, "resolved")
               ELSE AddJob(DropJob(st1, j), Job(s, "page", next, j.chained))

\* Mutant of the renderPage(...).then callback: throwIfInactive is missing.
pageRenderedUnchecked(st, j) ==
  renderNextPage([st EXCEPT !.printContainer =
                    Append(@, [svc |-> j.svc, page |-> j.index])], j)

\* The renderPage(...).then callback of renderPages: the svg of page index
\* (the value of currentPage when the render was started) is appended.
pageRendered(st, j) ==
  IF ~active(st, j.svc) THEN Lose(Throw(st, InactiveMsg), j)
  ELSE renderNextPage([st EXCEPT !.printContainer =
                         Append(@, [svc |-> j.svc, page |-> j.index])], j)

\* PDFPrintService.performPrint up to the native print() call; the promise
\* it returns is resolved by a timer.
performPrint(st, s) ==
  IF ~active(st, s) THEN Throw(st, InactiveMsg) ELSE st

\* Mutant of the last reaction of window.print's chain: abort() is called
\* without the check of activeServiceOnEntry.active.
chainEndUnchecked(st, activeServiceOnEntry) == abort(st)

\* The last reaction of window.print's chain.
chainEnd(st, activeServiceOnEntry) ==
  IF active(st, activeServiceOnEntry) THEN abort(st) ELSE st

\* Mutant of the first test of window.print: never ignored.
printIgnoredNever(st) == FALSE

\* The first test of window.print.
printIgnored(st) == st.activeService # 0

\* The 'beforeprint' listener of the application: it either creates the
\* print service for the pages and lays it out, or (pagesOverview empty:
\* printing unsupported, pages not ready) does nothing.
beforePrint(st, pagesOverview) ==
  IF pagesOverview = <<>> THEN st
  ELSE LET st1 == createPrintService(st, pagesOverview)
       IN  IF st1.err # "" THEN [st1 EXCEPT !.err = ""]
           ELSE layout(st1, st1.activeService)

\* window.print: renderPages() of the new service, with the chain
\* .then(performPrint).catch(...).then(...) attached to its promise.
print(st, pagesOverview) ==
  IF printIgnored(st) THEN Console(st, IgnoredMsg)
  ELSE LET ensured == ensureOverlay(st)
           st1 == Enqueue(ensured, "overlayOpen", 0)
           st2 == beforePrint(dispatchEvent(st1, "beforeprint"), pagesOverview)
           s == st2.activeService
           st3 == renderPages(st2, s)
       IN  IF ensured.err # "" THEN ensured
           ELSE IF st2.activeService = 0
           THEN Enqueue(ensureOverlay(Console(st2, ExpectedMsg)), "overlayClose", 0)
           ELSE AddJob(DropJob(st3, Job(s, "xhr", -1, FALSE)), Job(s, "xhr", -1, TRUE))

\* The calls of window.print and of the PDFPrintService API.
CallOps ==
  {"window.print", "createPrintService", "layout", "destroy", "renderPages",
   "performPrint"}

StateOf(st) ==
  <<st.activeService, st.created, st.svc, st.jobs, st.printContainer,
    st.bodyPrinting, st.bodyStyles, st.overlayActive, st.overlayPromise, st.mq>>

\* A call that changes the state counts towards MaxCalls; a call that is
\* refused, ignored or leaves everything as it was can always be made.
Counted(st, op) == op \in CallOps /\ StateOf(st) # StateOf(PS)

\* The handler or reaction is done: its effects become the next state.
Commit(st, op, s) ==
  /\ Counted(st, op) => calls < MaxCalls
  /\ activeService' = st.activeService
  /\ created' = st.created
  /\ svc' = st.svc
  /\ jobs' = st.jobs
  /\ printContainer' = st.printContainer
  /\ bodyPrinting' = st.bodyPrinting
  /\ bodyStyles' = st.bodyStyles
  /\ overlayActive' = st.overlayActive
  /\ overlayPromise' = st.overlayPromise
  /\ appOverlayManager' = st.appOverlayManager
  /\ mq' = st.mq
  /\ calls' = IF Counted(st, op) THEN calls + 1 ELSE calls
  /\ last' = [op |-> op, svc |-> s, err |-> st.err, console |-> st.console,
              events |-> st.events, promise |-> st.promise]
  /\ UNCHANGED layerVars
  /\ UNCHANGED netVars

Services == 1..created
Jobs == BagToSet(jobs)
ChainOf(s) == CHOOSE j \in Jobs : j.svc = s /\ j.chained
Idle == mq = <<>>
Pop(st) == [st EXCEPT !.mq = Tail(@)]

\* ---- tasks: a task starts only when the microtask queue is empty ----

\* The application sets PDFViewerApplication.overlayManager.
InitializeOverlayManager ==
  /\ Idle
  /\ ~appOverlayManager
  /\ Commit([PS EXCEPT !.appOverlayManager = TRUE], "initialize", 0)

\* The user (or a script) calls window.print().
WindowPrint ==
  /\ Idle
  /\ \E pagesOverview \in PagesOverviews \cup {<<>>} :
       /\ Commit(print(PS, pagesOverview), "window.print", 0)

\* The cancel button of the open overlay (onclick = abort).
CancelClick ==
  /\ Idle
  /\ overlayPromise /\ overlayActive
  /\ Commit(abort(PS), "cancel", activeService)

\* xhr.onload: status 2xx with a form, without a form, unparsable, or a
\* status outside 2xx.
XhrLoad ==
  /\ Idle
  /\ \E j \in Jobs, response \in {"form", "noForm", "unparsable", "errorStatus"} :
       /\ j.st = "xhr"
       /\ Commit(IF response = "form" THEN SetJob(PS, j, "getDocument")
                 ELSE Reject(PS, j), "xhr.onload", j.svc)

\* xhr.onerror
XhrError ==
  /\ Idle
  /\ \E j \in Jobs :
       /\ j.st = "xhr"
       /\ Commit(Reject(PS, j), "xhr.onerror", j.svc)

\* getDocument(pdfData).promise is fulfilled: renderNextPage() is called.
DocumentLoaded ==
  /\ Idle
  /\ \E j \in Jobs :
       /\ j.st = "getDocument"
       /\ Commit(renderNextPage(PS, j), "documentLoaded", j.svc)

\* getDocument(pdfData).promise is rejected: PDFViewerApplication.handleException
\* gets the reason; the promise renderPages returned is not settled.
DocumentFailed ==
  /\ Idle
  /\ \E j \in Jobs :
       /\ j.st = "getDocument"
       /\ Commit(Lose(PS, j), "documentFailed", j.svc)

\* renderPage(...) is fulfilled.
PageRendered ==
  /\ Idle
  /\ \E j \in Jobs :
       /\ j.st = "page"
       /\ Commit(pageRendered(PS, j), "pageRendered", j.svc)

\* renderPage(...) is rejected: no reaction handles it.
PageFailed ==
  /\ Idle
  /\ \E j \in Jobs :
       /\ j.st = "page"
       /\ Commit(Lose(PS, j), "pageFailed", j.svc)

\* The timer of performPrint resolves its promise; the value passes the
\* .catch and reaches the last reaction.
PrintTimer ==
  /\ Idle
  /\ \E j \in Jobs :
       /\ j.st = "timer"
       /\ Commit(Enqueue(SetJob(PS, j, "printed"), "chainEnd", j.svc), "timer",
                 j.svc)

\* A consumer calls PDFPrintServiceFactory.instance.createPrintService.
CreatePrintService ==
  /\ Idle
  /\ \E pagesOverview \in PagesOverviews :
       Commit(createPrintService(PS, pagesOverview), "createPrintService", 0)

\* A consumer calls layout() on a service it holds.
Layout ==
  /\ Idle
  /\ \E s \in Services : Commit(layout(PS, s), "layout", s)

\* A consumer calls destroy() on a service it holds.
Destroy ==
  /\ Idle
  /\ \E s \in Services : Commit(destroy(PS, s), "destroy", s)

\* A consumer calls renderPages() on a service it holds.
RenderPages ==
  /\ Idle
  /\ \E s \in Services : Commit(renderPages(PS, s), "renderPages", s)

\* A consumer calls performPrint() on a service it holds.
PerformPrint ==
  /\ Idle
  /\ \E s \in Services : Commit(performPrint(PS, s), "performPrint", s)

\* ---- microtasks, in queue order ----

\* ensureOverlay().then(...) of window.print: open the overlay.
OverlayOpen ==
  /\ mq # <<>> /\ Head(mq).kind = "overlayOpen"
  /\ Commit(IF activeService # 0 THEN [Pop(PS) EXCEPT !.overlayActive = TRUE]
            ELSE Pop(PS), "overlayOpen", 0)

\* ensureOverlay().then(...) of destroy and of window.print: close the overlay.
OverlayClose ==
  /\ mq # <<>> /\ Head(mq).kind = "overlayClose"
  /\ Commit([Pop(PS) EXCEPT !.overlayActive = FALSE], "overlayClose", 0)

\* renderPages().then(...): performPrint() is called; when it throws the
\* .catch reaction follows, otherwise the chain waits for the timer.
ThenPerformPrint ==
  /\ mq # <<>> /\ Head(mq).kind = "then"
  /\ LET s == Head(mq).svc
         j == ChainOf(s)
         st == performPrint(Pop(PS), s)
     IN  Commit(IF st.err # "" THEN Enqueue(SetJob(st, j, "rejected"), "catch", s)
                ELSE SetJob(st, j, "timer"), "then", s)

\* .catch(...): the error is ignored.
Catch ==
  /\ mq # <<>> /\ Head(mq).kind = "catch"
  /\ Commit(Enqueue(Pop(PS), "chainEnd", Head(mq).svc), "catch", Head(mq).svc)

\* The last .then(...) of window.print.
ChainEnd ==
  /\ mq # <<>> /\ Head(mq).kind = "chainEnd"
  /\ LET s == Head(mq).svc
     IN  Commit(DropJob(chainEnd(Pop(PS), s), ChainOf(s)), "chainEnd", s)

PrintIdle ==
  /\ activeService = 0
  /\ created = 0
  /\ svc = <<>>
  /\ jobs = EmptyBag
  /\ printContainer = <<>>
  /\ bodyPrinting = FALSE
  /\ bodyStyles = 0
  /\ overlayActive = FALSE
  /\ overlayPromise = FALSE
  /\ appOverlayManager = FALSE
  /\ mq = <<>>
  /\ calls = 0
  /\ last = [op |-> "none", svc |-> 0, err |-> "", console |-> <<>>,
             events |-> <<>>, promise |-> ""]

LayerIdle ==
  /\ variant = "part_001"
  /\ annotations = <<>>
  /\ div = [hidden |-> TRUE, children |-> <<>>]
  /\ nUpdates = 0
  /\ lcall = [op |-> "none", viewport |-> IdentityViewport, threw |-> FALSE]

\* ------------------------------------------------------- network utils
\* display/network_utils. A header value is absent (getResponseHeader
\* returns null or undefined) or a text, kept as its characters.
Absent == [present |-> FALSE, text |-> <<>>]
Text(chars) == [present |-> TRUE, text |-> chars]

undefined == [k |-> "undefined", n |-> 0, d |-> 1]

Digits == <<"0", "1", "2", "3", "4", "5", "6", "7", "8", "9">>
IsDigit(c) == \E i \in 1..Len(Digits) : Digits[i] = c
DigitValue(c) == (CHOOSE i \in 1..Len(Digits) : Digits[i] = c) - 1

\* The decimal text of an integer, as a server writes Content-Length and as
\* string concatenation writes a status.
RECURSIVE DecimalDigits(_)
DecimalDigits(n) ==
  IF n < 10 THEN <<Digits[n + 1]>>
  ELSE Append(DecimalDigits(n \div 10), Digits[(n % 10) + 1])

Decimal(n) == IF n < 0 THEN <<"-">> \o DecimalDigits(-n) ELSE DecimalDigits(n)

RECURSIVE SkipSpaces(_)
SkipSpaces(s) == IF s # <<>> /\ Head(s) = " " THEN SkipSpaces(Tail(s)) ELSE s

RECURSIVE LeadingDigits(_)
LeadingDigits(s) ==
  IF s # <<>> /\ IsDigit(Head(s)) THEN <<Head(s)>> \o LeadingDigits(Tail(s))
  ELSE <<>>

RECURSIVE DigitsValue(_, _)
DigitsValue(s, acc) ==
  IF s = <<>> THEN acc ELSE DigitsValue(Tail(s), 10 * acc + DigitValue(Head(s)))

\* parseInt(header, 10): leading blanks, an optional sign, then the digits up
\* to the first character that is not one; NaN when there is no digit.
ParseInt(h) ==
  IF ~h.present THEN NaN
  ELSE LET s == SkipSpaces(h.text)
           signed == s # <<>> /\ Head(s) \in {"-", "+"}
           ds == LeadingDigits(IF signed THEN Tail(s) ELSE s)
       IN  IF ds = <<>> THEN NaN
           ELSE Num((IF signed /\ Head(s) = "-" THEN -1 ELSE 1) * DigitsValue(ds, 0))

\* Number.isInteger
IsInteger(x) == x.k = "num" /\ x.d = 1

bytes == Text(<<"b", "y", "t", "e", "s">>)
none == Text(<<"n", "o", "n", "e">>)
identity == Text(<<"i", "d", "e", "n", "t", "i", "t", "y">>)
gzip == Text(<<"g", "z", "i", "p">>)
eight == Text(<<"e", "i", "g", "h", "t">>)

ChunkMsg == "Range chunk size must be larger than zero"

\* The arguments the functions are called with.
ChunkSizes == {-1, 0, 1, 64}
LengthValues == {-8, 2, 3, 8, 128, 129, 8192}
AcceptRangesValues == {Absent, bytes, none}
ContentEncodingValues == {Absent, Text(<<>>), identity, gzip}
ContentLengthValues == {Absent, eight} \cup {Text(Decimal(n)) : n \in LengthValues}

Headers(ar, ce, cl) ==
  [name \in {"Accept-Ranges", "Content-Encoding", "Content-Length"} |->
     CASE name = "Accept-Ranges" -> ar
       [] name = "Content-Encoding" -> ce
       [] OTHER -> cl]

RangeResult(threw, allow, length) ==
  [threw |-> threw, allowRangeRequests |-> allow, suggestedLength |-> length]

\* Mutant of validateRangeRequestCapabilities: the Content-Encoding header is
\* not looked at.
validateRangeRequestCapabilitiesAnyEncoding(p) ==
  LET defaultValues == RangeResult("", FALSE, undefined)
      length == ParseInt(p.getResponseHeader["Content-Length"])
  IN  IF ~(p.rangeChunkSize > 0) THEN RangeResult(ChunkMsg, FALSE, undefined)
      ELSE IF p.disableRange \/ ~p.isHttp THEN defaultValues
      ELSE IF p.getResponseHeader["Accept-Ranges"] # bytes THEN defaultValues
      ELSE IF ~IsInteger(length) THEN defaultValues
      ELSE IF length.n <= 2 * p.rangeChunkSize THEN RangeResult("", FALSE, length)
      ELSE RangeResult("", TRUE, length)

\* validateRangeRequestCapabilities({ getResponseHeader, isHttp,
\* rangeChunkSize, disableRange }): a file of at most two chunks is not
\* worth a range request.
validateRangeRequestCapabilities(p) ==
  LET defaultValues == RangeResult("", FALSE, undefined)
      contentEncoding == p.getResponseHeader["Content-Encoding"]
      length == ParseInt(p.getResponseHeader["Content-Length"])
  IN  IF ~(p.rangeChunkSize > 0) THEN RangeResult(ChunkMsg, FALSE, undefined)
      ELSE IF p.disableRange \/ ~p.isHttp THEN defaultValues
      ELSE IF p.getResponseHeader["Accept-Ranges"] # bytes THEN defaultValues
      ELSE IF contentEncoding.present /\ contentEncoding.text # <<>>
              /\ contentEncoding # identity THEN defaultValues
      ELSE IF ~IsInteger(length) THEN defaultValues
      ELSE IF length.n <= 2 * p.rangeChunkSize THEN RangeResult("", FALSE, length)
      ELSE RangeResult("", TRUE, length)

\* A URL, kept as its characters.
FileUrl == <<"f", "i", "l", "e", ":", "/", "/", "a">>
HttpsUrl == <<"h", "t", "t", "p", "s", ":", "/", "/", "a">>
FileInPathUrl == <<"a", "/", "f", "i", "l", "e", ":">>
FileNoColonUrl == <<"f", "i", "l", "e">>
Urls == {FileUrl, HttpsUrl, FileInPathUrl, FileNoColonUrl, <<>>}
Statuses == {0, 200, 302, 404, 500}

\* /^file:/.test(url)
RECURSIVE StartsWith(_, _)
StartsWith(s, prefix) ==
  \/ prefix = <<>>
  \/ /\ s # <<>>
     /\ Head(s) = Head(prefix)
     /\ StartsWith(Tail(s), Tail(prefix))

\* new MissingPDFException('Missing PDF "' + url + '".'): the message is
\* kept as its parts.
MissingPDFException(url) ==
  [name |-> "MissingPDFException",
   message |-> <<"Missing PDF \"", url, "\".">>]

\* new UnexpectedResponseException('Unexpected server response (' + status +
\* ') while retrieving PDF "' + url + '".')
UnexpectedResponseException(status, url) ==
  [name |-> "UnexpectedResponseException",
   message |-> <<"Unexpected server response (", Decimal(status),
                 ") while retrieving PDF \"", url, "\".">>]

\* Mutant of createResponseStatusError: status 0 counts as a missing file
\* whatever the URL is.
createResponseStatusErrorAnyUrl(status, url) ==
  IF status = 404 \/ status = 0 THEN MissingPDFException(url)
  ELSE UnexpectedResponseException(status, url)

\* createResponseStatusError(status, url)
createResponseStatusError(status, url) ==
  IF status = 404 \/ (status = 0 /\ StartsWith(url, <<"f", "i", "l", "e", ":">>))
  THEN MissingPDFException(url)
  ELSE UnexpectedResponseException(status, url)

\* A caller validates the range request capabilities of a response.
ValidateRangeRequestCapabilities ==
  /\ \E disableRange \in BOOLEAN, isHttp \in BOOLEAN, chunk \in ChunkSizes,
        ar \in AcceptRangesValues, ce \in ContentEncodingValues,
        cl \in ContentLengthValues :
       LET p == [getResponseHeader |-> Headers(ar, ce, cl), isHttp |-> isHttp,
                 rangeChunkSize |-> chunk, disableRange |-> disableRange]
       IN  netCall' = [fn |-> "validateRangeRequestCapabilities", args |-> p,
                       result |-> validateRangeRequestCapabilities(p)]
  /\ UNCHANGED layerVars
  /\ UNCHANGED printVars

\* A caller turns a response status into an exception.
CreateResponseStatusError ==
  /\ \E status \in Statuses, url \in Urls :
       netCall' = [fn |-> "createResponseStatusError",
                   args |-> [status |-> status, url |-> url],
                   result |-> createResponseStatusError(status, url)]
  /\ UNCHANGED layerVars
  /\ UNCHANGED printVars

NetIdle == netCall = [fn |-> "none"]

\* ------------------------------------------------------- specifications
Init == PrintIdle /\ LayerIdle /\ NetIdle

Next ==
  \/ InitializeOverlayManager
  \/ WindowPrint \/ CancelClick
  \/ XhrLoad \/ XhrError \/ DocumentLoaded \/ DocumentFailed
  \/ PageRendered \/ PageFailed \/ PrintTimer
  \/ CreatePrintService \/ Layout \/ Destroy \/ RenderPages \/ PerformPrint
  \/ OverlayOpen \/ OverlayClose \/ ThenPerformPrint \/ Catch \/ ChainEnd

Spec == Init /\ [][Next]_vars

LayerInit ==
  /\ variant \in Variants
  /\ annotations \in AnnotationArrays
  /\ div \in [hidden : BOOLEAN, children : {<<>>}]
  /\ nUpdates = 0
  /\ lcall = [op |-> "none", viewport |-> IdentityViewport, threw |-> FALSE]
  /\ PrintIdle
  /\ NetIdle

LayerNext == Render \/ Render000 \/ Render001 \/ Update \/ Update000 \/ Update001

LayerSpec == LayerInit /\ [][LayerNext]_vars

NetInit == LayerIdle /\ PrintIdle /\ NetIdle

NetNext == ValidateRangeRequestCapabilities \/ CreateResponseStatusError

NetSpec == NetInit /\ [][NetNext]_vars

\* ------------------------------------------------ annotation layer claims
Ids(children) == [i \in 1..Len(children) |-> children[i].id]

RenderableIn(v, a) == a # null /\ IsRenderable(v, a)

InGroup(a, group) ==
  group = "any" \/ ((group = "Popup") = (a.annotationType = "Popup"))

\* The ids of the non-null renderable annotations of a group ("any", "Popup",
\* "NotPopup"), in input order.
RECURSIVE IdsWhere(_, _, _, _)
IdsWhere(v, list, i, group) ==
  IF i > Len(list) THEN <<>>
  ELSE IF RenderableIn(v, list[i]) /\ InGroup(list[i], group)
    THEN <<list[i].id>> \o IdsWhere(v, list, i + 1, group)
  ELSE IdsWhere(v, list, i + 1, group)

InArray(id) == \E i \in 1..Len(annotations) : annotations[i] # null /\ annotations[i].id = id

DataOf(id) == annotations[CHOOSE i \in 1..Len(annotations) :
                            annotations[i] # null /\ annotations[i].id = id]

TransformRevisions == {"annotation_layer.js", "part_001"}

\* C1: in annotation_layer.js and part_001, when update returns, every
\* annotation of parameters.annotations that has an element in the layer has
\* transform matrix(<transform of the viewport of this update>) and the layer
\* div has no 'hidden' attribute, whatever updates came before.
C1_UpdateSetsTransform ==
  (variant \in TransformRevisions /\ lcall.op = "update" /\ ~lcall.threw) =>
    /\ ~div.hidden
    /\ \A i \in 1..Len(annotations) :
         LET p == QuerySelector(div.children, annotations[i].id)
         IN  p # 0 => div.children[p].transform = MatrixOf(lcall.viewport)

\* C1 witness: a second update, with another viewport than the render's and
\* the first update's, has just restyled an element.
C1_Witness ==
  /\ variant \in TransformRevisions
  /\ lcall.op = "update" /\ ~lcall.threw
  /\ nUpdates = 2
  /\ lcall.viewport # IdentityViewport
  /\ \E i \in 1..Len(div.children) :
       div.children[i].transform = MatrixOf(lcall.viewport)

\* C2: in part_000, after a render at V1 and one update at V2 the left, top,
\* width and height of every section equal those of a fresh render at V2.
C2_UpdateEqualsFreshRender ==
  (variant = "part_000" /\ lcall.op = "update" /\ ~lcall.threw
     /\ nUpdates = 1 /\ div.children # <<>>) =>
    LET fresh == RenderLoop("part_000", <<>>, RenderOrder("part_000", annotations),
                            1, lcall.viewport)
    IN  \A i \in 1..Len(div.children) :
          /\ div.children[i].left = fresh[i].left
          /\ div.children[i].top = fresh[i].top
          /\ div.children[i].width = fresh[i].width
          /\ div.children[i].height = fresh[i].height

\* C3: in annotation_layer.js and part_000, render appends one section per
\* non-null annotation whose element is renderable, in input order, and
\* nothing for null entries and non-renderable annotations.
C3_RenderAppendsInInputOrder ==
  (variant \in {"annotation_layer.js", "part_000"} /\ lcall.op = "render") =>
    Ids(div.children) = IdsWhere(variant, annotations, 1, "any")

\* C3 witness: a render of three entries that skipped one (a null entry or
\* a non-renderable annotation) and appended the section of a Popup before
\* the section of a non-Popup annotation that follows it in the array.
C3_Witness ==
  /\ variant \in {"annotation_layer.js", "part_000"}
  /\ lcall.op = "render"
  /\ Len(annotations) = 3
  /\ \E i \in 1..Len(annotations) :
       annotations[i] = null \/ ~IsRenderable(variant, annotations[i])
  /\ \E i, j \in 1..Len(annotations) :
       /\ i < j
       /\ annotations[i] # null /\ annotations[i].annotationType = "Popup"
       /\ annotations[j] # null /\ annotations[j].annotationType # "Popup"
       /\ Ids(div.children) = <<annotations[i].id, annotations[j].id>>

\* C4: in part_001, render appends the sections of the renderable non-Popup
\* annotations (in input order) before those of the renderable Popup
\* annotations (in input order), so a Popup whose renderable parent is in the
\* array, at any position, finds the parent's section and attaches to it.
C4_PopupsRenderedLast ==
  (variant = "part_001" /\ lcall.op = "render") =>
    /\ Ids(div.children) = IdsWhere(variant, annotations, 1, "NotPopup")
                           \o IdsWhere(variant, annotations, 1, "Popup")
    /\ \A i \in 1..Len(div.children) :
         LET e == div.children[i]
         IN  (/\ e.className = "popupAnnotation"
              /\ DataOf(e.id).parentType \notin IGNORE_TYPES(variant)
              /\ InArray(DataOf(e.id).parentId)
              /\ IsRenderable(variant, DataOf(DataOf(e.id).parentId)))
             => e.popup

\* C4 witness: two Popups precede the parent of the first in the input
\* array; the parent's section comes first, then the sections of the two
\* Popups in their input order, the first attached to its parent.
C4_Witness ==
  /\ variant = "part_001" /\ lcall.op = "render"
  /\ Len(annotations) = 3
  /\ annotations[1] # null /\ annotations[1].annotationType = "Popup"
  /\ annotations[2] # null /\ annotations[2].annotationType = "Popup"
  /\ annotations[3] # null /\ annotations[3].id = annotations[1].parentId
  /\ Ids(div.children) = <<annotations[3].id, annotations[1].id, annotations[2].id>>
  /\ div.children[2].popup

\* C5: update accepts what render accepts: whatever the array holds (null
\* entries, annotations without an element), update does not throw and ends
\* with the 'hidden' attribute of the layer div removed.
C5_UpdateNeverThrows ==
  lcall.op = "update" => (~lcall.threw /\ ~div.hidden)

\* ------------------------------------------------- print service claims
printState == <<activeService, created, svc, jobs, printContainer, bodyPrinting,
                bodyStyles, overlayActive, overlayPromise, mq>>

\* The service has a call of renderPages() in the given state.
HasJob(s, state) == \E j \in Jobs : j.svc = s /\ j.st = state

\* C6: activeService never passes from one service to another, only from
\* null to a service or from a service to null; createPrintService called
\* while a service is active throws 'The print service is created and
\* active.' and leaves activeService as it was.
C6_OneActiveService ==
  [][/\ activeService' # activeService => (activeService = 0 \/ activeService' = 0)
     /\ (last'.op = "createPrintService" /\ activeService # 0) =>
          (last'.err = ActiveMsg /\ activeService' = activeService)]_vars

\* C6 witness: createPrintService was just refused because a service is active.
C6_Witness ==
  /\ last.op = "createPrintService"
  /\ last.err = ActiveMsg
  /\ activeService # 0

\* C7: window.print() called while activeService is not null is ignored: no
\* event is dispatched, the overlay is not touched, no service is created,
\* no request is sent and the pending job is left as it was.
C7_PrintIgnoredWhilePending ==
  [][(last'.op = "window.print" /\ activeService # 0) =>
       (/\ UNCHANGED printState
        /\ last'.events = <<>>
        /\ last'.console = <<IgnoredMsg>>)]_vars

\* C7 witness: window.print() was just ignored while a job was waiting for
\* its HTTP response.
C7_Witness ==
  /\ last.op = "window.print"
  /\ last.console = <<IgnoredMsg>>
  /\ activeService # 0
  /\ HasJob(activeService, "xhr")

\* C8: the last reaction of a request's chain calls abort() only when that
\* request's service is still the active one: when another service (or none)
\* is active, activeService is left alone and no afterprint is dispatched.
C8_ChainEndSparesLaterRequest ==
  [][(last'.op = "chainEnd" /\ activeService # last'.svc) =>
       (/\ activeService' = activeService
        /\ printContainer' = printContainer
        /\ last'.events = <<>>)]_vars

\* C8 witness: the chain of a cancelled request has just ended while a later
\* request is active and still running.
C8_Witness ==
  /\ last.op = "chainEnd"
  /\ activeService # 0
  /\ last.svc # activeService
  /\ HasJob(activeService, "xhr")

Pending(j) ==
  \/ j.st \in {"xhr", "getDocument", "page", "timer"}
  \/ \E i \in 1..Len(mq) : mq[i].svc = j.svc

\* C9: every print job started by window.print() ends by itself: once its
\* HTTP request and the promises of the PDF library have settled and the
\* reactions to them have run, its service is no longer the active one.
C9_JobEndsWithoutUser ==
  \A j \in Jobs :
    (j.chained /\ ~Pending(j)) => activeService # j.svc

\* C10: a page is appended to the print container only by the service that
\* is active; layout() and performPrint() on an inactive service throw 'This
\* print request was cancelled or completed.' and change nothing.
C10_NoAppendAfterDestroy ==
  [][/\ Len(printContainer') > Len(printContainer) =>
          (/\ activeService # 0
           /\ activeService' = activeService
           /\ \A i \in 1..Len(printContainer') :
                printContainer'[i].svc = activeService)
     /\ (last'.op \in {"layout", "performPrint"} /\ activeService # last'.svc) =>
          (last'.err = InactiveMsg /\ UNCHANGED printState)
     /\ (last'.op \in {"pageRendered", "documentLoaded"} /\ activeService # last'.svc) =>
          (last'.err = InactiveMsg /\ printContainer' = printContainer)]_vars

\* C10 witness: the page render of a destroyed service has just completed
\* while a newer service is active, and nothing was appended for it.
C10_Witness ==
  /\ last.op = "pageRendered"
  /\ last.err = InactiveMsg
  /\ activeService # 0
  /\ last.svc # activeService
  /\ HasJob(activeService, "page")


\* C11: destroy() called on a service that is not the active one (a stale
\* reference) changes nothing: the print container, the body's
\* data-pdfjsprinting attribute, the page style sheets, activeService and the
\* overlay (with the reactions queued for it) are left as they were, and
\* nothing is thrown, logged or dispatched.
C11_StaleDestroyChangesNothing ==
  [][(last'.op = "destroy" /\ activeService # last'.svc) =>
       (/\ UNCHANGED printState
        /\ last'.err = ""
        /\ last'.console = <<>>
        /\ last'.events = <<>>)]_vars

\* C11 witness: destroy() was just called on a service that had been
\* replaced, while the active service has its style sheet attached, a page
\* in the print container and the overlay open.
C11_Witness ==
  /\ last.op = "destroy"
  /\ activeService # 0
  /\ last.svc # activeService
  /\ printContainer # <<>>
  /\ bodyPrinting
  /\ svc[activeService].pageStyleSheet
  /\ overlayActive

\* -------------------------------------------------- network utils claims
\* The Content-Encoding header names an encoding other than identity.
OtherEncoding(ce) == ce \notin {Absent, Text(<<>>), identity}

\* The Content-Length header is the decimal text of the integer n.
LengthIs(cl, n) == cl = Text(Decimal(n))

\* C12: validateRangeRequestCapabilities throws 'Range chunk size must be
\* larger than zero' when rangeChunkSize is not larger than zero; otherwise
\* it returns {allowRangeRequests: false, suggestedLength: undefined} when
\* range requests are disabled, the source is not HTTP, Accept-Ranges is not
\* 'bytes', Content-Encoding names a non-identity encoding or Content-Length
\* is not an integer; in the remaining case suggestedLength is the
\* Content-Length and allowRangeRequests tells whether the length is more
\* than two chunks (false for 8 with chunk 64, true for 8192 with chunk 64).
C12_RangeRequestCapabilities ==
  netCall.fn = "validateRangeRequestCapabilities" =>
    LET p == netCall.args
        r == netCall.result
        ar == p.getResponseHeader["Accept-Ranges"]
        ce == p.getResponseHeader["Content-Encoding"]
        cl == p.getResponseHeader["Content-Length"]
        refused == \/ p.disableRange
                   \/ ~p.isHttp
                   \/ ar # bytes
                   \/ OtherEncoding(ce)
                   \/ \A n \in LengthValues : ~LengthIs(cl, n)
    IN  IF p.rangeChunkSize <= 0 THEN r.threw = ChunkMsg
        ELSE /\ r.threw = ""
             /\ refused => (~r.allowRangeRequests /\ r.suggestedLength = undefined)
             /\ \A n \in LengthValues :
                  (~refused /\ LengthIs(cl, n)) =>
                    /\ r.suggestedLength = Num(n)
                    /\ r.allowRangeRequests = (n > 2 * p.rangeChunkSize)
                    /\ (n = 8 /\ p.rangeChunkSize = 64) => ~r.allowRangeRequests
                    /\ (n = 8192 /\ p.rangeChunkSize = 64) => r.allowRangeRequests

\* C12 witness: a response of 8192 bytes with Accept-Ranges: bytes and no
\* Content-Encoding was just validated with chunks of 64 bytes, and range
\* requests are allowed.
C12_Witness ==
  /\ netCall.fn = "validateRangeRequestCapabilities"
  /\ netCall.args.rangeChunkSize = 64
  /\ netCall.args.getResponseHeader["Content-Encoding"] = Absent
  /\ netCall.args.getResponseHeader["Content-Length"] = Text(<<"8", "1", "9", "2">>)
  /\ netCall.result.allowRangeRequests
  /\ netCall.result.suggestedLength = Num(8192)

\* C13: createResponseStatusError(status, url) returns a MissingPDFException
\* with the message 'Missing PDF "<url>".' exactly when status is 404, or
\* status is 0 and the url starts with 'file:'; for every other status and
\* url it returns an UnexpectedResponseException whose message carries the
\* status and the url.
C13_ResponseStatusError ==
  netCall.fn = "createResponseStatusError" =>
    LET status == netCall.args.status
        url == netCall.args.url
        e == netCall.result
        fileUrl == Len(url) >= 5 /\ SubSeq(url, 1, 5) = <<"f", "i", "l", "e", ":">>
    IN  IF status = 404 \/ (status = 0 /\ fileUrl)
        THEN /\ e.name = "MissingPDFException"
             /\ e.message = <<"Missing PDF \"", url, "\".">>
        ELSE /\ e.name = "UnexpectedResponseException"
             /\ e.message = <<"Unexpected server response (", Decimal(status),
                              ") while retrieving PDF \"", url, "\".">>

\* C13 witness: status 0 for a file: URL was just turned into a
\* MissingPDFException.
C13_Witness ==
  /\ netCall.fn = "createResponseStatusError"
  /\ netCall.args.status = 0
  /\ netCall.args.url = FileUrl
  /\ netCall.result.name = "MissingPDFException"

====
